---- MODULE Spec2Model ----
(***************************************************************************)
(* EncryptedPredictionPoll: a single poll whose ballots are encrypted      *)
(* option indices, tallied homomorphically, and revealed by an oracle      *)
(* decryption request followed by an authenticated callback.               *)
(*                                                                         *)
(* A ciphertext handle is modelled as a record [val, acl]: val is the      *)
(* 32-bit plaintext the ciphertext decrypts to, acl the set of addresses   *)
(* that were granted permission on the handle.  Option index i of the      *)
(* source (0-based) is position i + 1 of the sequences below.              *)
(***************************************************************************)
EXTENDS Integers, Sequences, FiniteSets, TLC

\* ---------------------------------------------------------------- bounds
NumIdentities == 2
MaxOptions == 3
MaxDuration == 1
GenesisTime == 1
MaxInput == 1
MaxCount == 2

\* ------------------------------------------------------------- constants
MinOptions == 2
MaxTimes == 10

This == 0
NoAddress == 0
Identities == 1..NumIdentities
\* Identities are interchangeable until the constructor runs: the deployer is
\* taken to be the first of them.
Deployers == {1}
\* Correlation ids the oracle may hand out: the default stored id and another.
RequestIds == {0, 1}
Choices == 0..MaxOptions
Durations == 0..MaxDuration
OptionListLengths == 1..MaxOptions

PollNames == {"EncryptedPrediction2025"}
PollHeadlines == {"Encrypted Polling Predictions"}
PollDescriptions == {"Forecast the community sentiment"}

VARIABLES
    deployed,
    now,
    pollName, pollHeadline, pollDescription,
    startTime, endTime,
    creator,
    voterCount,
    finalized, decryptionPending,
    decryptionRequestId,
    encryptedTallies,
    clearTallies,
    options,
    hasVoted,
    events,
    oracleRequests,
    last,
    counterDeployed,
    count,
    owner,
    paused,
    emitted

immutables == <<pollName, pollHeadline, pollDescription, startTime, endTime, creator, options>>
ballots == <<voterCount, encryptedTallies, hasVoted>>
lifecycle == <<finalized, decryptionPending, decryptionRequestId, clearTallies>>
pollState == <<deployed, immutables, ballots, lifecycle, events, oracleRequests>>
counterState == <<counterDeployed, count, owner, paused, emitted>>
vars == <<pollState, now, last, counterState>>

\* ------------------------------------------------ the FHE capability
\* euint32 arithmetic wraps at 2^32, which is outside TLC's integer range.  A
\* plaintext is written as the integer of least magnitude it is congruent to
\* modulo 2^32 (its two's complement reading: 2^32 - 1 is written -1).  Every
\* plaintext of this model stays within MaxCount + MaxTimes * MaxInput of
\* zero, so sums and differences in this notation are exact.
FHE_asEuint32(v) == [val |-> v, acl |-> {}]

FHE_eq(a, b) == [val |-> (a.val = b.val), acl |-> {}]

FHE_select(c, a, b) == [val |-> IF c.val THEN a.val ELSE b.val, acl |-> {}]

FHE_add(a, b) == [val |-> a.val + b.val, acl |-> {}]

FHE_sub(a, b) == [val |-> a.val - b.val, acl |-> {}]

FHE_allow(h, who) == [h EXCEPT !.acl = @ \cup {who}]

FHE_allowThis(h) == FHE_allow(h, This)

FHE_fromExternal(encryptedOption) == [val |-> encryptedOption, acl |-> {}]

FHE_toBytes32(h) == h.val

\* ------------------------------------------------------------ call log
NoCall ==
    [op |-> "none", sender |-> NoAddress, err |-> "none", ret |-> -1,
     requestId |-> -1, authOk |-> FALSE, cleartexts |-> <<>>,
     nLabels |-> 0, nDescs |-> 0, duration |-> 0,
     newOwner |-> NoAddress, times |-> 0]

Call(op, sender, err) == [NoCall EXCEPT !.op = op, !.sender = sender, !.err = err]

Ok(err) == err = "none"

\* ------------------------------------------------ constructor inputs
OptionLabels(n) == [i \in 1..n |-> i]
OptionDescriptions(n) == [i \in 1..n |-> MaxOptions + i]

\* ---------------------------------------------------------------- Init
Init ==
    /\ deployed = FALSE
    /\ now = GenesisTime
    /\ pollName = ""
    /\ pollHeadline = ""
    /\ pollDescription = ""
    /\ startTime = 0
    /\ endTime = 0
    /\ creator = NoAddress
    /\ voterCount = 0
    /\ finalized = FALSE
    /\ decryptionPending = FALSE
    /\ decryptionRequestId = 0
    /\ encryptedTallies = <<>>
    /\ clearTallies = <<>>
    /\ options = <<>>
    /\ hasVoted = [i \in Identities |-> FALSE]
    /\ events = <<>>
    /\ oracleRequests = <<>>
    /\ last = NoCall
    /\ counterDeployed = FALSE
    /\ count = FHE_asEuint32(0)
    /\ owner = NoAddress
    /\ paused = FALSE
    /\ emitted = <<>>

\* --------------------------------------------------------- constructor
\* Mutant: one option is enough (< 1 for < 2).
ConstructorRevert_MinOne(optionLabels, optionDescriptions, votingDurationSeconds) ==
    IF Len(optionLabels) < 1 THEN "InsufficientOptions"
    ELSE IF Len(optionDescriptions) # Len(optionLabels) THEN "MismatchedOptionMetadata"
    ELSE IF votingDurationSeconds = 0 THEN "InvalidVotingDuration"
    ELSE "none"

\* Mutant: the voting duration is not checked.
ConstructorRevert_NoDurationCheck(optionLabels, optionDescriptions, votingDurationSeconds) ==
    IF Len(optionLabels) < MinOptions THEN "InsufficientOptions"
    ELSE IF Len(optionDescriptions) # Len(optionLabels) THEN "MismatchedOptionMetadata"
    ELSE "none"

ConstructorRevert(optionLabels, optionDescriptions, votingDurationSeconds) ==
    IF Len(optionLabels) < MinOptions THEN "InsufficientOptions"
    ELSE IF Len(optionDescriptions) # Len(optionLabels) THEN "MismatchedOptionMetadata"
    ELSE IF votingDurationSeconds = 0 THEN "InvalidVotingDuration"
    ELSE "none"

\* Mutant: the counters start at one.
InitialTally_One(sender) == FHE_allow(FHE_asEuint32(1), sender)

InitialTally(sender) == FHE_allow(FHE_asEuint32(0), sender)

Constructor(sender, name, headline, description, optionLabels, optionDescriptions, votingDurationSeconds) ==
    LET err == ConstructorRevert(optionLabels, optionDescriptions, votingDurationSeconds)
        call == [Call("constructor", sender, err) EXCEPT
                    !.nLabels = Len(optionLabels),
                    !.nDescs = Len(optionDescriptions),
                    !.duration = votingDurationSeconds]
    IN  /\ ~deployed
        /\ last' = call
        /\ UNCHANGED counterState
        /\ UNCHANGED <<now, voterCount, finalized, decryptionPending, decryptionRequestId,
                       hasVoted, events, oracleRequests>>
        /\ IF Ok(err)
           THEN /\ deployed' = TRUE
                /\ pollName' = name
                /\ pollHeadline' = headline
                /\ pollDescription' = description
                /\ creator' = sender
                /\ startTime' = now
                /\ endTime' = now + votingDurationSeconds
                /\ options' = [i \in 1..Len(optionLabels) |->
                                  [label |-> optionLabels[i], description |-> optionDescriptions[i]]]
                /\ encryptedTallies' = [i \in 1..Len(optionLabels) |-> InitialTally(sender)]
                /\ clearTallies' = [i \in 1..Len(optionLabels) |-> 0]
           ELSE UNCHANGED <<deployed, immutables, encryptedTallies, clearTallies>>

\* ------------------------------------------------- submitEncryptedVote
\* Mutant: the duplicate-ballot check is missing.
SubmitVoteRevert_NoVotedCheck(timestamp, sender, proofOk) ==
    IF timestamp < startTime \/ timestamp > endTime THEN "VotingClosed"
    ELSE IF ~proofOk THEN "InvalidProof"
    ELSE "none"

\* Mutant: the window is closed at endTime itself (>= for >).
SubmitVoteRevert_EndExclusive(timestamp, sender, proofOk) ==
    IF timestamp < startTime \/ timestamp >= endTime THEN "VotingClosed"
    ELSE IF hasVoted[sender] THEN "AlreadyVoted"
    ELSE IF ~proofOk THEN "InvalidProof"
    ELSE "none"

\* Mutant: the ciphertext is imported without verifying its proof.
SubmitVoteRevert_NoProofCheck(timestamp, sender, proofOk) ==
    IF timestamp < startTime \/ timestamp > endTime THEN "VotingClosed"
    ELSE IF hasVoted[sender] THEN "AlreadyVoted"
    ELSE "none"

SubmitVoteRevert(timestamp, sender, proofOk) ==
    IF timestamp < startTime \/ timestamp > endTime THEN "VotingClosed"
    ELSE IF hasVoted[sender] THEN "AlreadyVoted"
    ELSE IF ~proofOk THEN "InvalidProof"
    ELSE "none"

\* Mutant: the updated counter is not permitted for the creator.
TallyIncrement_NoCreatorGrant(tally, choice, i, sender) ==
    LET isMatch == FHE_eq(choice, FHE_asEuint32(i))
        increment == FHE_select(isMatch, FHE_asEuint32(1), FHE_asEuint32(0))
        sum == FHE_add(tally, increment)
    IN  FHE_allow(FHE_allowThis(sum), sender)

\* Mutant: only the counter of the chosen option is rewritten.
TallyIncrement_SelectiveWrite(tally, choice, i, sender) ==
    LET sum == FHE_add(tally, FHE_asEuint32(1))
    IN  IF choice.val = i
        THEN FHE_allow(FHE_allow(FHE_allowThis(sum), sender), creator)
        ELSE tally

\* Mutant: the counters of the options not chosen are set back to zero.
TallyIncrement_ResetsOthers(tally, choice, i, sender) ==
    LET isMatch == FHE_eq(choice, FHE_asEuint32(i))
        sum == FHE_select(isMatch, FHE_add(tally, FHE_asEuint32(1)), FHE_asEuint32(0))
    IN  FHE_allow(FHE_allow(FHE_allowThis(sum), sender), creator)

TallyIncrement(tally, choice, i, sender) ==
    LET isMatch == FHE_eq(choice, FHE_asEuint32(i))
        increment == FHE_select(isMatch, FHE_asEuint32(1), FHE_asEuint32(0))
        sum == FHE_add(tally, increment)
    IN  FHE_allow(FHE_allow(FHE_allowThis(sum), sender), creator)

RECURSIVE FanOut(_, _, _, _)
FanOut(tallies, choice, i, sender) ==
    IF i < Len(tallies)
    THEN FanOut([tallies EXCEPT ![i + 1] = TallyIncrement(tallies[i + 1], choice, i, sender)],
                choice, i + 1, sender)
    ELSE tallies

\* Mutant: the ballot record keeps the latest voter only.
RecordVote_KeepsLatestOnly(sender) ==
    /\ hasVoted' = [i \in Identities |-> i = sender]
    /\ voterCount' = voterCount + 1
    /\ events' = Append(events, [name |-> "VoteSubmitted", arg |-> sender])

\* Mutant: the voter counter is not incremented.
RecordVote_NoCount(sender) ==
    /\ hasVoted' = [hasVoted EXCEPT ![sender] = TRUE]
    /\ voterCount' = voterCount
    /\ events' = Append(events, [name |-> "VoteSubmitted", arg |-> sender])

RecordVote(sender) ==
    /\ hasVoted' = [hasVoted EXCEPT ![sender] = TRUE]
    /\ voterCount' = voterCount + 1
    /\ events' = Append(events, [name |-> "VoteSubmitted", arg |-> sender])

\* Mutant: the duplicate-ballot check reports its error after the tally loop
\* ran, without undoing it.
SubmitEncryptedVote_LateVotedCheck(sender, proofOk) ==
    LET err == SubmitVoteRevert(now, sender, proofOk)
    IN  /\ deployed
        /\ last' = [Call("submitEncryptedVote", sender, err) EXCEPT !.authOk = proofOk]
        /\ UNCHANGED <<deployed, now, immutables, lifecycle, oracleRequests, counterState>>
        /\ IF Ok(err)
           THEN /\ \E encryptedOption \in Choices :
                      encryptedTallies' =
                          FanOut(encryptedTallies, FHE_fromExternal(encryptedOption), 0, sender)
                /\ RecordVote(sender)
           ELSE IF err = "AlreadyVoted"
           THEN /\ \E encryptedOption \in Choices :
                      encryptedTallies' =
                          FanOut(encryptedTallies, FHE_fromExternal(encryptedOption), 0, sender)
                /\ UNCHANGED <<voterCount, hasVoted, events>>
           ELSE UNCHANGED <<ballots, events>>

SubmitEncryptedVote(sender, proofOk) ==
    LET err == SubmitVoteRevert(now, sender, proofOk)
    IN  /\ deployed
        /\ last' = [Call("submitEncryptedVote", sender, err) EXCEPT !.authOk = proofOk]
        /\ UNCHANGED <<deployed, now, immutables, lifecycle, oracleRequests, counterState>>
        /\ IF Ok(err)
           THEN /\ \E encryptedOption \in Choices :
                      encryptedTallies' =
                          FanOut(encryptedTallies, FHE_fromExternal(encryptedOption), 0, sender)
                /\ RecordVote(sender)
           ELSE UNCHANGED <<ballots, events>>

\* ------------------------------------- requestEncryptedTallyDecryption
\* Mutant: a pending request does not block a new one.
RequestDecryptionRevert_NoPendingCheck(timestamp) ==
    IF timestamp = endTime \/ timestamp < endTime THEN "VotingStillOpen"
    ELSE IF finalized THEN "AlreadyFinalized"
    ELSE "none"

\* Mutant: a finalized poll does not block a new request.
RequestDecryptionRevert_NoFinalizedCheck(timestamp) ==
    IF timestamp = endTime \/ timestamp < endTime THEN "VotingStillOpen"
    ELSE IF decryptionPending THEN "DecryptionAlreadyPending"
    ELSE "none"

\* Mutant: a request is not held back until the voting window has closed.
RequestDecryptionRevert_NoWindowCheck(timestamp) ==
    IF finalized THEN "AlreadyFinalized"
    ELSE IF decryptionPending THEN "DecryptionAlreadyPending"
    ELSE "none"

RequestDecryptionRevert(timestamp) ==
    IF timestamp = endTime \/ timestamp < endTime THEN "VotingStillOpen"
    ELSE IF finalized THEN "AlreadyFinalized"
    ELSE IF decryptionPending THEN "DecryptionAlreadyPending"
    ELSE "none"

\* Mutant: the serialisation loop stops one handle short.
Ciphertexts_OneShort(tallies) == [i \in 1..(Len(tallies) - 1) |-> FHE_toBytes32(tallies[i])]

Ciphertexts(tallies) == [i \in 1..Len(tallies) |-> FHE_toBytes32(tallies[i])]

FHE_requestDecryption(requestId, ciphertexts, callbackSelector) ==
    oracleRequests' = Append(oracleRequests,
        [requestId |-> requestId, ciphertexts |-> ciphertexts, callbackSelector |-> callbackSelector])

RequestEncryptedTallyDecryption(sender) ==
    LET err == RequestDecryptionRevert(now)
    IN  /\ deployed
        /\ UNCHANGED <<deployed, now, immutables, ballots, finalized, clearTallies, counterState>>
        /\ IF Ok(err)
           THEN \E requestId \in RequestIds :
                /\ FHE_requestDecryption(requestId, Ciphertexts(encryptedTallies), "decryptionCallback")
                /\ decryptionPending' = TRUE
                /\ decryptionRequestId' = requestId
                /\ events' = Append(events, [name |-> "TallyDecryptionRequested", arg |-> requestId])
                /\ last' = [Call("requestEncryptedTallyDecryption", sender, err) EXCEPT !.ret = requestId]
           ELSE /\ UNCHANGED <<oracleRequests, decryptionPending, decryptionRequestId, events>>
                /\ last' = Call("requestEncryptedTallyDecryption", sender, err)

\* -------------------------------------------------- decryptionCallback
\* Mutant: only the id is compared, the pending flag is not read.
DecryptionCallbackRevert_NoPendingCheck(requestId, cleartexts, signaturesOk) ==
    IF requestId # decryptionRequestId THEN "UnexpectedCallback"
    ELSE IF ~signaturesOk THEN "InvalidSignature"
    ELSE IF Len(cleartexts) # Len(clearTallies) THEN "InvalidTallyLength"
    ELSE "none"

\* Mutant: the decoded length is not compared with the option count.
DecryptionCallbackRevert_NoLengthCheck(requestId, cleartexts, signaturesOk) ==
    IF ~decryptionPending \/ requestId # decryptionRequestId THEN "UnexpectedCallback"
    ELSE IF ~signaturesOk THEN "InvalidSignature"
    ELSE "none"

\* Mutant: the signatures of the oracle are not verified.
DecryptionCallbackRevert_NoSignatureCheck(requestId, cleartexts, signaturesOk) ==
    IF ~decryptionPending \/ requestId # decryptionRequestId THEN "UnexpectedCallback"
    ELSE IF Len(cleartexts) # Len(clearTallies) THEN "InvalidTallyLength"
    ELSE "none"

\* Mutant: the length comparison is inverted (== for !=).
DecryptionCallbackRevert_RejectsExactLength(requestId, cleartexts, signaturesOk) ==
    IF ~decryptionPending \/ requestId # decryptionRequestId THEN "UnexpectedCallback"
    ELSE IF ~signaturesOk THEN "InvalidSignature"
    ELSE IF Len(cleartexts) = Len(clearTallies) THEN "InvalidTallyLength"
    ELSE "none"

DecryptionCallbackRevert(requestId, cleartexts, signaturesOk) ==
    IF ~decryptionPending \/ requestId # decryptionRequestId THEN "UnexpectedCallback"
    ELSE IF ~signaturesOk THEN "InvalidSignature"
    ELSE IF Len(cleartexts) # Len(clearTallies) THEN "InvalidTallyLength"
    ELSE "none"

\* Mutant: the accepted callback leaves the request pending.
ApplyTallies_KeepsPending(tallies) ==
    /\ clearTallies' = [i \in 1..Len(tallies) |-> tallies[i]]
    /\ finalized' = TRUE
    /\ decryptionPending' = decryptionPending
    /\ events' = Append(events, [name |-> "TallyFinalized", arg |-> tallies])

\* Mutant: the copy loop stops one entry short.
ApplyTallies_SkipsLast(tallies) ==
    /\ clearTallies' = [i \in 1..Len(clearTallies) |->
                            IF i < Len(tallies) THEN tallies[i] ELSE clearTallies[i]]
    /\ finalized' = TRUE
    /\ decryptionPending' = FALSE
    /\ events' = Append(events, [name |-> "TallyFinalized", arg |-> tallies])

ApplyTallies(tallies) ==
    /\ clearTallies' = [i \in 1..Len(tallies) |-> tallies[i]]
    /\ finalized' = TRUE
    /\ decryptionPending' = FALSE
    /\ events' = Append(events, [name |-> "TallyFinalized", arg |-> tallies])

\* Mutant: the request is marked answered before the callback is validated,
\* and a callback rejected for its signatures or its length leaves it so.
DecryptionCallback_ConsumesOnReject(requestId, cleartexts, signaturesOk) ==
    LET err == DecryptionCallbackRevert(requestId, cleartexts, signaturesOk)
    IN  /\ deployed
        /\ last' = [Call("decryptionCallback", NoAddress, err) EXCEPT
                       !.requestId = requestId,
                       !.cleartexts = cleartexts,
                       !.authOk = signaturesOk,
                       !.ret = IF Ok(err) THEN 1 ELSE -1]
        /\ UNCHANGED <<deployed, now, immutables, ballots, decryptionRequestId, oracleRequests, counterState>>
        /\ IF Ok(err)
           THEN ApplyTallies(cleartexts)
           ELSE /\ decryptionPending' = (decryptionPending /\ err = "UnexpectedCallback")
                /\ UNCHANGED <<finalized, clearTallies, events>>

DecryptionCallback(requestId, cleartexts, signaturesOk) ==
    LET err == DecryptionCallbackRevert(requestId, cleartexts, signaturesOk)
    IN  /\ deployed
        /\ last' = [Call("decryptionCallback", NoAddress, err) EXCEPT
                       !.requestId = requestId,
                       !.cleartexts = cleartexts,
                       !.authOk = signaturesOk,
                       !.ret = IF Ok(err) THEN 1 ELSE -1]
        /\ UNCHANGED <<deployed, now, immutables, ballots, decryptionRequestId, oracleRequests, counterState>>
        /\ IF Ok(err)
           THEN ApplyTallies(cleartexts)
           ELSE UNCHANGED <<finalized, decryptionPending, clearTallies, events>>

\* ------------------------------------------------------ read accessors
\* A read returns [err, arg, value]: the error name ("none" for a return), the
\* error's argument and the value returned, -1 where there is none.
Reverted(err, arg) == [err |-> err, arg |-> arg, value |-> -1]
Returned(value) == [err |-> "none", arg |-> -1, value |-> value]

OptionCount == Len(options)

\* Mutant: the last valid index is refused (>= for >).
GetOption_RejectsLast(index) ==
    IF Len(options) = 0 \/ index >= Len(options) - 1
    THEN Reverted("InvalidOptionIndex", index)
    ELSE Returned(options[index + 1])

GetOption(index) ==
    IF Len(options) = 0 \/ index > Len(options) - 1
    THEN Reverted("InvalidOptionIndex", index)
    ELSE Returned(options[index + 1])

GetEncryptedTally(index) ==
    IF Len(encryptedTallies) = 0 \/ index > Len(encryptedTallies) - 1
    THEN Reverted("InvalidOptionIndex", index)
    ELSE Returned(encryptedTallies[index + 1])

\* Mutant: the finalized flag is not checked.
GetClearTally_NoFinalizedCheck(index) ==
    IF Len(clearTallies) = 0 \/ index > Len(clearTallies) - 1
    THEN Reverted("InvalidOptionIndex", index)
    ELSE Returned(clearTallies[index + 1])

GetClearTally(index) ==
    IF ~finalized THEN Reverted("TallyNotFinalized", -1)
    ELSE IF Len(clearTallies) = 0 \/ index > Len(clearTallies) - 1
    THEN Reverted("InvalidOptionIndex", index)
    ELSE Returned(clearTallies[index + 1])

\* Mutant: the window is reported closed at endTime itself.
IsVotingOpen_EndExclusive(timestamp) ==
    LET afterStart == timestamp > startTime \/ timestamp = startTime
        beforeEnd == timestamp < endTime
    IN  afterStart /\ beforeEnd /\ ~finalized

IsVotingOpen(timestamp) ==
    LET afterStart == timestamp > startTime \/ timestamp = startTime
        beforeEnd == timestamp < endTime
        onEnd == timestamp = endTime
    IN  afterStart /\ (beforeEnd \/ onEnd) /\ ~finalized

\* ---------------------------------------------------------------- time
Tick ==
    /\ deployed
    /\ now <= endTime
    /\ now' = now + 1
    /\ last' = Call("tick", NoAddress, "none")
    /\ UNCHANGED <<pollState, counterState>>

\* ------------------------------------------------------ oracle payloads
TruePlaintexts == [i \in 1..Len(encryptedTallies) |-> encryptedTallies[i].val]

Payloads ==
    LET t == TruePlaintexts
    IN  { t,
          [t EXCEPT ![1] = @ + 1],
          SubSeq(t, 1, Len(t) - 1),
          Append(t, 0) }

\* ---------------------------------------------------------------- Next
Next ==
    \/ \E s \in Deployers, n \in PollNames, h \in PollHeadlines, d \in PollDescriptions,
          nl \in OptionListLengths, nd \in OptionListLengths, dur \in Durations :
          Constructor(s, n, h, d, OptionLabels(nl), OptionDescriptions(nd), dur)
    \/ \E s \in Identities, p \in BOOLEAN : SubmitEncryptedVote(s, p)
    \/ \E s \in Identities : RequestEncryptedTallyDecryption(s)
    \/ \E id \in RequestIds, p \in Payloads, sig \in BOOLEAN :
          DecryptionCallback(id, p, sig)
    \/ Tick

Spec == Init /\ [][Next]_vars

\* ------------------------------------------------------------ fairness
\* The environment of a poll that is driven to its end: block time advances,
\* once the window has closed some caller asks for the decryption, and the
\* oracle answers a pending request with the recorded id, valid signatures and
\* one value per option.
SomeoneRequests ==
    /\ now > endTime
    /\ \E s \in Identities : RequestEncryptedTallyDecryption(s)

OracleDelivers ==
    /\ decryptionPending
    /\ \E p \in Payloads :
          /\ Len(p) = Len(encryptedTallies)
          /\ DecryptionCallback(decryptionRequestId, p, TRUE)

FairSpec ==
    /\ Spec
    /\ WF_vars(Tick)
    /\ WF_vars(SomeoneRequests)
    /\ WF_vars(OracleDelivers)

\* ===================================================================
\* FHECounter: an encrypted counter with an owner and a pause switch
\* ===================================================================
CounterInputs == 0..MaxInput
BatchTimes == {0, 1, MaxTimes, MaxTimes + 1}
NewOwners == Identities \cup {NoAddress}

NotOwner == "FHECounter: caller is not the owner"
IsPaused == "FHECounter: contract is paused"
NotPaused == "FHECounter: contract is not paused"
ZeroAddress == "FHECounter: new owner is the zero address"
BadTimes == "FHECounter: times must be between 1 and 10"

\* ----------------------------------------------------------- modifiers
\* A modifier yields its require message, or what the body it guards yields.
\* Mutant: the caller is not compared with the owner.
OnlyOwner_Anyone(sender, body) == body

OnlyOwner(sender, body) == IF sender = owner THEN body ELSE NotOwner

\* Mutant: the pause switch is not read.
WhenNotPaused_Ignored(body) == body

WhenNotPaused(body) == IF ~paused THEN body ELSE IsPaused

WhenPaused(body) == IF paused THEN body ELSE NotPaused

\* -------------------------------------------------------------- guards
ImportRevert(proofOk) == IF proofOk THEN "none" ELSE "InvalidProof"

IncrementRevert(proofOk) == WhenNotPaused(ImportRevert(proofOk))

DecrementRevert(proofOk) == WhenNotPaused(ImportRevert(proofOk))

BatchRevert(times, proofOk) ==
    WhenNotPaused(IF times > 0 /\ times <= MaxTimes THEN ImportRevert(proofOk) ELSE BadTimes)

ResetRevert(sender) == OnlyOwner(sender, WhenNotPaused("none"))

TransferOwnershipRevert(sender, newOwner) ==
    OnlyOwner(sender, IF newOwner # NoAddress THEN "none" ELSE ZeroAddress)

PauseRevert(sender) == OnlyOwner(sender, WhenNotPaused("none"))

UnpauseRevert(sender) == OnlyOwner(sender, WhenPaused("none"))

\* ------------------------------------------------------------- updates
Grant(newCount, sender) == FHE_allow(FHE_allowThis(newCount), sender)

RECURSIVE BatchAdd(_, _, _, _)
BatchAdd(result, encryptedEuint32, i, times) ==
    IF i < times
    THEN BatchAdd(FHE_add(result, encryptedEuint32), encryptedEuint32, i + 1, times)
    ELSE result

RECURSIVE BatchSub(_, _, _, _)
BatchSub(result, encryptedEuint32, i, times) ==
    IF i < times
    THEN BatchSub(FHE_sub(result, encryptedEuint32), encryptedEuint32, i + 1, times)
    ELSE result

Emit(name, arg) == <<[name |-> name, arg |-> arg]>>

\* The counter is kept within MaxCount of zero before each arithmetic call.
CountInRange == -MaxCount <= count.val /\ count.val <= MaxCount

\* --------------------------------------------------------- constructor
CounterConstructor(sender) ==
    /\ ~counterDeployed
    /\ counterDeployed' = TRUE
    /\ owner' = sender
    /\ paused' = FALSE
    /\ count' = count
    /\ emitted' = Emit("OwnershipTransferred", <<NoAddress, sender>>)
    /\ last' = Call("FHECounter", sender, "none")
    /\ UNCHANGED <<pollState, now>>

\* ------------------------------------------------ increment, decrement
Increment(sender, proofOk) ==
    LET err == IncrementRevert(proofOk)
    IN  /\ counterDeployed /\ CountInRange
        /\ last' = [Call("increment", sender, err) EXCEPT !.authOk = proofOk]
        /\ UNCHANGED <<pollState, now, counterDeployed, owner, paused>>
        /\ IF Ok(err)
           THEN /\ \E inputEuint32 \in CounterInputs :
                      count' = Grant(FHE_add(count, FHE_fromExternal(inputEuint32)), sender)
                /\ emitted' = Emit("CounterIncremented", sender)
           ELSE /\ count' = count
                /\ emitted' = <<>>

Decrement(sender, proofOk) ==
    LET err == DecrementRevert(proofOk)
    IN  /\ counterDeployed /\ CountInRange
        /\ last' = [Call("decrement", sender, err) EXCEPT !.authOk = proofOk]
        /\ UNCHANGED <<pollState, now, counterDeployed, owner, paused>>
        /\ IF Ok(err)
           THEN /\ \E inputEuint32 \in CounterInputs :
                      count' = Grant(FHE_sub(count, FHE_fromExternal(inputEuint32)), sender)
                /\ emitted' = Emit("CounterDecremented", sender)
           ELSE /\ count' = count
                /\ emitted' = <<>>

BatchIncrement(sender, proofOk, times) ==
    LET err == BatchRevert(times, proofOk)
    IN  /\ counterDeployed /\ CountInRange
        /\ last' = [Call("batchIncrement", sender, err) EXCEPT !.authOk = proofOk, !.times = times]
        /\ UNCHANGED <<pollState, now, counterDeployed, owner, paused>>
        /\ IF Ok(err)
           THEN /\ \E inputEuint32 \in CounterInputs :
                      count' = Grant(BatchAdd(count, FHE_fromExternal(inputEuint32), 0, times), sender)
                /\ emitted' = Emit("CounterIncremented", sender)
           ELSE /\ count' = count
                /\ emitted' = <<>>

BatchDecrement(sender, proofOk, times) ==
    LET err == BatchRevert(times, proofOk)
    IN  /\ counterDeployed /\ CountInRange
        /\ last' = [Call("batchDecrement", sender, err) EXCEPT !.authOk = proofOk, !.times = times]
        /\ UNCHANGED <<pollState, now, counterDeployed, owner, paused>>
        /\ IF Ok(err)
           THEN /\ \E inputEuint32 \in CounterInputs :
                      count' = Grant(BatchSub(count, FHE_fromExternal(inputEuint32), 0, times), sender)
                /\ emitted' = Emit("CounterDecremented", sender)
           ELSE /\ count' = count
                /\ emitted' = <<>>

\* ----------------------------------------------------- owner functions
Reset(sender) ==
    LET err == ResetRevert(sender)
    IN  /\ counterDeployed
        /\ last' = Call("reset", sender, err)
        /\ UNCHANGED <<pollState, now, counterDeployed, owner, paused>>
        /\ IF Ok(err)
           THEN /\ count' = Grant(FHE_asEuint32(0), sender)
                /\ emitted' = Emit("CounterReset", sender)
           ELSE /\ count' = count
                /\ emitted' = <<>>

TransferOwnership(sender, newOwner) ==
    LET err == TransferOwnershipRevert(sender, newOwner)
    IN  /\ counterDeployed
        /\ last' = [Call("transferOwnership", sender, err) EXCEPT !.newOwner = newOwner]
        /\ UNCHANGED <<pollState, now, counterDeployed, count, paused>>
        /\ IF Ok(err)
           THEN /\ owner' = newOwner
                /\ emitted' = Emit("OwnershipTransferred", <<owner, newOwner>>)
           ELSE /\ owner' = owner
                /\ emitted' = <<>>

Pause(sender) ==
    LET err == PauseRevert(sender)
    IN  /\ counterDeployed
        /\ last' = Call("pause", sender, err)
        /\ UNCHANGED <<pollState, now, counterDeployed, count, owner>>
        /\ IF Ok(err)
           THEN /\ paused' = TRUE
                /\ emitted' = Emit("Paused", sender)
           ELSE /\ paused' = paused
                /\ emitted' = <<>>

Unpause(sender) ==
    LET err == UnpauseRevert(sender)
    IN  /\ counterDeployed
        /\ last' = Call("unpause", sender, err)
        /\ UNCHANGED <<pollState, now, counterDeployed, count, owner>>
        /\ IF Ok(err)
           THEN /\ paused' = FALSE
                /\ emitted' = Emit("Unpaused", sender)
           ELSE /\ paused' = paused
                /\ emitted' = <<>>

CounterNext ==
    \/ \E s \in Deployers : CounterConstructor(s)
    \/ \E s \in Identities, p \in BOOLEAN : Increment(s, p)
    \/ \E s \in Identities, p \in BOOLEAN : Decrement(s, p)
    \/ \E s \in Identities, p \in BOOLEAN, t \in BatchTimes : BatchIncrement(s, p, t)
    \/ \E s \in Identities, p \in BOOLEAN, t \in BatchTimes : BatchDecrement(s, p, t)
    \/ \E s \in Identities : Reset(s)
    \/ \E s \in Identities, n \in NewOwners : TransferOwnership(s, n)
    \/ \E s \in Identities : Pause(s)
    \/ \E s \in Identities : Unpause(s)

CounterSpec == Init /\ [][CounterNext]_vars

\* ===================================================================
\* Properties
\* ===================================================================
IsVote(c) == c.op = "submitEncryptedVote"
IsRequest(c) == c.op = "requestEncryptedTallyDecryption"
IsCallback(c) == c.op = "decryptionCallback"
InWindow(t) == startTime <= t /\ t <= endTime
NumOptions == Len(options)

RECURSIVE SumSeq(_)
SumSeq(s) == IF s = <<>> THEN 0 ELSE Head(s) + SumSeq(Tail(s))

CountEvents(name) == Cardinality({k \in 1..Len(events) : events[k].name = name})

VoteSubmittedCount(i) ==
    Cardinality({k \in 1..Len(events) : events[k].name = "VoteSubmitted" /\ events[k].arg = i})

\* C1: an identity has its voted flag set exactly when the log holds one
\* successful ballot of it, and no identity ever has two successful ballots.
C1_OneVotePerIdentity ==
    \A i \in Identities :
        /\ VoteSubmittedCount(i) <= 1
        /\ hasVoted[i] <=> (VoteSubmittedCount(i) = 1)

\* C1 witness: a voter's second attempt was rejected while another identity
\* has not voted at all.
C1_Witness ==
    /\ IsVote(last) /\ last.err = "AlreadyVoted"
    /\ hasVoted[last.sender] /\ VoteSubmittedCount(last.sender) = 1
    /\ \E j \in Identities : ~hasVoted[j] /\ VoteSubmittedCount(j) = 0

\* C2 as stated: whatever the time of the attempt, a ballot from an identity
\* that has voted fails with AlreadyVoted and changes no ballot state.
C2_RepeatAlwaysAlreadyVoted ==
    [][(IsVote(last') /\ hasVoted[last'.sender])
           => (last'.err = "AlreadyVoted" /\ UNCHANGED ballots)]_vars

\* C2 amended: a ballot from an identity that has voted always fails and
\* changes no ballot state; the error is AlreadyVoted inside the voting window
\* and VotingClosed outside it (the window is checked first).
C2_RepeatAlwaysRejected ==
    [][(IsVote(last') /\ hasVoted[last'.sender])
           => /\ last'.err = (IF InWindow(now) THEN "AlreadyVoted" ELSE "VotingClosed")
              /\ UNCHANGED pollState]_vars

\* C2 witness: an identity that has voted tried again after the window closed.
C2_Witness ==
    /\ IsVote(last) /\ last.err = "VotingClosed"
    /\ hasVoted[last.sender] /\ now > endTime /\ last.authOk

\* C3 as stated: every accepted ballot raises exactly one of the N counters
\* by one and leaves the plaintext of the others as it was.
C3_ExactlyOneCounterIncremented ==
    [][(IsVote(last') /\ Ok(last'.err))
           => \E i \in 1..NumOptions :
                 /\ encryptedTallies'[i].val = encryptedTallies[i].val + 1
                 /\ \A j \in (1..NumOptions) \ {i} :
                       encryptedTallies'[j].val = encryptedTallies[j].val]_vars

\* C4 as stated: once finalized with the true plaintexts of the encrypted
\* tallies, the clear tallies sum to the number of successful ballots, which
\* is voterCount.
C4_TallyConservation ==
    (finalized /\ clearTallies = TruePlaintexts)
        => /\ voterCount = CountEvents("VoteSubmitted")
           /\ SumSeq(clearTallies) = voterCount

\* C5: outside [startTime, endTime] a ballot fails with VotingClosed and
\* changes nothing; inside it (bounds included) a ballot of an identity that
\* has not voted, with a valid proof, is accepted.  The first conjunct states
\* it of the gate at every timestamp, the second of every call made.
C5_WindowGating ==
    /\ [](deployed =>
            \A t \in 0..(endTime + 1), s \in Identities, p \in BOOLEAN :
                /\ ~InWindow(t) => SubmitVoteRevert(t, s, p) = "VotingClosed"
                /\ (InWindow(t) /\ ~hasVoted[s] /\ p) => SubmitVoteRevert(t, s, p) = "none")
    /\ [][IsVote(last') =>
            /\ ~InWindow(now) => (last'.err = "VotingClosed" /\ UNCHANGED pollState)
            /\ (InWindow(now) /\ ~hasVoted[last'.sender] /\ last'.authOk)
                   => /\ Ok(last'.err)
                      /\ hasVoted'[last'.sender]
                      /\ voterCount' = voterCount + 1]_vars

\* C5 witness: a ballot was accepted at the closing instant itself.
C5_Witness ==
    /\ IsVote(last) /\ Ok(last.err)
    /\ now = endTime /\ now > startTime /\ hasVoted[last.sender]

\* C6: a decryption request is rejected with VotingStillOpen before endTime,
\* AlreadyFinalized once finalized, DecryptionAlreadyPending while pending,
\* and a rejected request leaves the lifecycle fields as they were.
C6_RequestRejections ==
    [][IsRequest(last') =>
          /\ now < endTime => last'.err = "VotingStillOpen"
          /\ finalized => last'.err = "AlreadyFinalized"
          /\ decryptionPending => last'.err = "DecryptionAlreadyPending"
          /\ (now < endTime \/ finalized \/ decryptionPending)
                => UNCHANGED <<decryptionPending, decryptionRequestId, finalized>>]_vars

\* C6 witness: a request was rejected while another was pending.
C6_Witness ==
    /\ IsRequest(last) /\ last.err = "DecryptionAlreadyPending"
    /\ decryptionPending /\ ~finalized /\ now > endTime

\* C7: after the window, with nothing pending or finalized, a request by any
\* caller succeeds: all N current handles go to the oracle, the returned id is
\* stored, returned and emitted, pending is set and finalized stays false.
C7_RequestSucceeds ==
    [][(IsRequest(last') /\ now > endTime /\ ~finalized /\ ~decryptionPending) =>
          /\ Ok(last'.err)
          /\ decryptionPending'
          /\ ~finalized'
          /\ decryptionRequestId' = last'.ret
          /\ events' = Append(events, [name |-> "TallyDecryptionRequested", arg |-> last'.ret])
          /\ oracleRequests' = Append(oracleRequests,
                 [requestId |-> last'.ret,
                  ciphertexts |-> [i \in 1..NumOptions |-> encryptedTallies[i].val],
                  callbackSelector |-> "decryptionCallback"])
          /\ UNCHANGED <<ballots, clearTallies>>]_vars

\* C7 witness: a caller who is not the creator opened the request of a poll
\* that closed without a single ballot.
C7_Witness ==
    /\ IsRequest(last) /\ Ok(last.err)
    /\ last.sender # creator /\ voterCount = 0
    /\ decryptionPending /\ decryptionRequestId = last.ret
    /\ Len(oracleRequests[1].ciphertexts) = NumOptions

\* C8: the oracle is asked at most once in the life of a poll: a request
\* succeeds only when none was ever made, every later one fails with
\* DecryptionAlreadyPending or AlreadyFinalized, and the stored id is written
\* only by that one success.
C8_AtMostOneRequest ==
    [][/\ Len(oracleRequests') <= 1
       /\ (IsRequest(last') /\ Ok(last'.err)) => oracleRequests = <<>>
       /\ (IsRequest(last') /\ oracleRequests # <<>>)
             => last'.err \in {"DecryptionAlreadyPending", "AlreadyFinalized"}
       /\ decryptionRequestId' # decryptionRequestId
             => (oracleRequests = <<>> /\ IsRequest(last') /\ Ok(last'.err))]_vars

\* C8 witness: a request was refused on a finalized poll, whose one request
\* is the only one the oracle ever received.
C8_Witness ==
    /\ IsRequest(last) /\ last.err = "AlreadyFinalized"
    /\ finalized /\ Len(oracleRequests) = 1
    /\ CountEvents("TallyDecryptionRequested") = 1

\* C9: a callback is rejected with UnexpectedCallback, whatever its
\* signatures and payload, when no request is pending or its id is not the
\* recorded one, and the rejection changes nothing.
C9_UnexpectedCallback ==
    [][(IsCallback(last') /\ (~decryptionPending \/ last'.requestId # decryptionRequestId))
           => (last'.err = "UnexpectedCallback" /\ UNCHANGED pollState)]_vars

\* C9 witness: before any request, a well-signed callback of the right length
\* carrying id 0, the default stored id, was rejected.
C9_Witness ==
    /\ IsCallback(last) /\ last.err = "UnexpectedCallback"
    /\ oracleRequests = <<>> /\ ~decryptionPending
    /\ last.requestId = 0 /\ decryptionRequestId = 0
    /\ last.authOk /\ Len(last.cleartexts) = Len(clearTallies)

\* C10: a callback is accepted only on a pending, not finalized request, and
\* clears it; every callback on a finalized poll fails with UnexpectedCallback
\* and leaves the clear tallies as written; the log never holds two
\* finalizations.
C10_FinalizeOnce ==
    [][/\ (IsCallback(last') /\ Ok(last'.err))
             => (decryptionPending /\ ~finalized /\ ~decryptionPending' /\ finalized')
       /\ (IsCallback(last') /\ finalized)
             => (last'.err = "UnexpectedCallback" /\ UNCHANGED pollState)
       /\ CountEvents("TallyFinalized")' <= 1]_vars

\* C10 witness: on a finalized poll a second well-signed callback with the
\* same id and a different payload of the right length was rejected.
C10_Witness ==
    /\ IsCallback(last) /\ last.err = "UnexpectedCallback"
    /\ finalized /\ last.requestId = decryptionRequestId /\ last.authOk
    /\ Len(last.cleartexts) = Len(clearTallies) /\ last.cleartexts # clearTallies

IsConstructor(c) == c.op = "constructor"
Indices == 0..(MaxOptions + 1)
HasVotedCount == Cardinality({i \in Identities : hasVoted[i]})
FinalizedVector ==
    LET k == CHOOSE k \in 1..Len(events) : events[k].name = "TallyFinalized"
    IN  events[k].arg

\* C11: a callback with the recorded id and valid signatures whose payload
\* length is not the option count fails with InvalidTallyLength: finalized is
\* not set, no clear tally is written and the request stays pending.
C11_LengthIntegrity ==
    [][(/\ IsCallback(last')
        /\ decryptionPending /\ last'.requestId = decryptionRequestId
        /\ last'.authOk /\ Len(last'.cleartexts) # NumOptions)
           => /\ last'.err = "InvalidTallyLength"
              /\ ~finalized' /\ decryptionPending'
              /\ clearTallies' = clearTallies
              /\ UNCHANGED pollState]_vars

\* C11 witness: a well-signed callback with the recorded id and one value too
\* many was rejected and the request is still pending.
C11_Witness ==
    /\ IsCallback(last) /\ last.err = "InvalidTallyLength"
    /\ decryptionPending /\ ~finalized
    /\ last.requestId = decryptionRequestId /\ last.authOk
    /\ Len(last.cleartexts) = NumOptions + 1

\* C12: an accepted callback writes every payload value to its clear tally,
\* sets finalized, clears pending and emits TallyFinalized with the payload,
\* all in one step; getClearTally(i) then returns payload[i] for every i < N.
C12_AcceptedCallback ==
    [][(/\ IsCallback(last')
        /\ decryptionPending /\ last'.requestId = decryptionRequestId
        /\ last'.authOk /\ Len(last'.cleartexts) = NumOptions)
           => /\ Ok(last'.err)
              /\ clearTallies' = last'.cleartexts
              /\ finalized' /\ ~decryptionPending'
              /\ events' = Append(events, [name |-> "TallyFinalized", arg |-> last'.cleartexts])
              /\ \A i \in 0..(NumOptions - 1) :
                    GetClearTally(i)' = Returned(last'.cleartexts[i + 1])
              /\ UNCHANGED <<deployed, immutables, ballots, decryptionRequestId, oracleRequests>>]_vars

\* C12 witness: a callback was accepted whose payload gives votes to the last
\* option, and the clear tallies read back as that payload.
C12_Witness ==
    /\ IsCallback(last) /\ Ok(last.err) /\ finalized /\ ~decryptionPending
    /\ clearTallies = last.cleartexts
    /\ GetClearTally(NumOptions - 1).value > 0

\* C13: finalized becomes true only in an accepted callback taken from a
\* pending state; once true it stays true, no request becomes pending again
\* and the voting window stays closed.
C13_FinalizedIsTerminal ==
    [][/\ (~finalized /\ finalized')
             => (IsCallback(last') /\ Ok(last'.err) /\ decryptionPending)
       /\ finalized => (finalized' /\ ~decryptionPending' /\ now' > endTime')]_vars

\* C13 witness: a ballot was attempted on a finalized poll,
\* which is still finalized.
C13_Witness ==
    /\ finalized /\ ~decryptionPending
    /\ IsVote(last) /\ last.err = "VotingClosed"
    /\ CountEvents("TallyFinalized") = 1

\* C14: getClearTally fails with TallyNotFinalized for every index while the
\* poll is not finalized; once finalized it fails with InvalidOptionIndex(index)
\* for index >= N and returns the value the accepted callback wrote otherwise.
C14_ClearTallyAccess ==
    deployed =>
        \A index \in Indices :
            GetClearTally(index) =
                IF ~finalized THEN Reverted("TallyNotFinalized", -1)
                ELSE IF index >= NumOptions THEN Reverted("InvalidOptionIndex", index)
                ELSE Returned(FinalizedVector[index + 1])

\* C14 witness: a finalized poll whose first clear tally reads nonzero and
\* whose index N is refused.
C14_Witness ==
    /\ finalized
    /\ GetClearTally(0).value > 0
    /\ GetClearTally(NumOptions) = Reverted("InvalidOptionIndex", NumOptions)

\* C15: the constructor rejects fewer than two labels with InsufficientOptions,
\* then label and description lists of different lengths with
\* MismatchedOptionMetadata, then a zero duration with InvalidVotingDuration;
\* a rejected construction leaves no poll and no state.
C15_ConstructionValidation ==
    [][IsConstructor(last') =>
          /\ last'.nLabels < 2 => last'.err = "InsufficientOptions"
          /\ (last'.nLabels >= 2 /\ last'.nDescs # last'.nLabels)
                => last'.err = "MismatchedOptionMetadata"
          /\ last'.duration = 0 => ~Ok(last'.err)
          /\ (last'.nLabels >= 2 /\ last'.nDescs = last'.nLabels /\ last'.duration = 0)
                => last'.err = "InvalidVotingDuration"
          /\ ~Ok(last'.err) => (~deployed' /\ UNCHANGED pollState)]_vars

\* C15 witness: a construction with 3 labels and 2 descriptions was rejected
\* and no poll exists.
C15_Witness ==
    /\ IsConstructor(last) /\ last.err = "MismatchedOptionMetadata"
    /\ last.nLabels = 3 /\ last.nDescs = 2
    /\ ~deployed /\ options = <<>> /\ encryptedTallies = <<>>

\* C16: right after a successful construction with N labels the option count
\* is N, no one has voted, nothing is pending or finalized, and each of the N
\* encrypted tallies encrypts zero.
C16_FreshPoll ==
    (IsConstructor(last) /\ Ok(last.err)) =>
        /\ deployed
        /\ OptionCount = last.nLabels
        /\ voterCount = 0
        /\ ~finalized /\ ~decryptionPending
        /\ \A i \in Identities : ~hasVoted[i]
        /\ Len(encryptedTallies) = last.nLabels
        /\ \A k \in 1..Len(encryptedTallies) : encryptedTallies[k].val = 0

\* C16 witness: a poll with three options was just constructed.
C16_Witness ==
    /\ IsConstructor(last) /\ Ok(last.err)
    /\ deployed /\ OptionCount = 3 /\ Len(encryptedTallies) = 3

\* C17: a constructed poll has startTime < endTime and at least two options;
\* the constructor sets the window, the creator and the options from its
\* arguments, and no later step changes them or the poll texts.
C17_ImmutableConfiguration ==
    /\ [](deployed => (startTime < endTime /\ NumOptions >= 2))
    /\ [][/\ deployed => UNCHANGED immutables
          /\ (IsConstructor(last') /\ Ok(last'.err))
                => /\ startTime' = now
                   /\ endTime' = now + last'.duration
                   /\ creator' = last'.sender
                   /\ options' = [i \in 1..last'.nLabels |->
                          [label |-> OptionLabels(last'.nLabels)[i],
                           description |-> OptionDescriptions(last'.nDescs)[i]]]
                   /\ pollName' \in PollNames
                   /\ pollHeadline' \in PollHeadlines
                   /\ pollDescription' \in PollDescriptions]_vars

\* C17 witness: a poll that took ballots and was finalized still has the
\* window and the creator it was constructed with.
C17_Witness ==
    /\ finalized /\ voterCount > 0
    /\ startTime = GenesisTime /\ startTime < endTime
    /\ creator \in Deployers /\ NumOptions >= 2

\* C18: a ballot record, once set, is set in every later state.
C18_BallotRecordMonotone ==
    [][\A i \in Identities : hasVoted[i] => hasVoted'[i]]_vars

\* C18 witness: every identity voted and all the records are still there on
\* the finalized poll, after a rejected callback.
C18_Witness ==
    /\ \A i \in Identities : hasVoted[i]
    /\ finalized /\ IsCallback(last) /\ ~Ok(last.err)

\* C19: voterCount is the number of identities whose ballot record is set; an
\* accepted ballot raises it by one and no other step changes it.
C19_VoterCount ==
    /\ [](voterCount = HasVotedCount)
    /\ [][voterCount' =
             voterCount + (IF IsVote(last') /\ Ok(last'.err) THEN 1 ELSE 0)]_vars

\* C19 witness: the second ballot was just accepted and the counter reads 2.
C19_Witness ==
    /\ IsVote(last) /\ Ok(last.err)
    /\ voterCount = 2 /\ HasVotedCount = 2

\* C20: a failing submitEncryptedVote, requestEncryptedTallyDecryption or
\* decryptionCallback leaves the whole poll state, the notification log
\* included, as it was before the call.
C20_AllOrNothing ==
    [][((IsVote(last') \/ IsRequest(last') \/ IsCallback(last')) /\ ~Ok(last'.err))
           => UNCHANGED pollState]_vars

\* C20 witness: a callback with the recorded id was rejected for its
\* signatures on a poll that holds ballots and a pending request.
C20_Witness ==
    /\ IsCallback(last) /\ last.err = "InvalidSignature"
    /\ decryptionPending /\ voterCount > 0
    /\ last.requestId = decryptionRequestId

\* C21: a ballot whose proof is rejected fails and leaves the whole poll state
\* as it was, the caller's record and the counters included; the identity's
\* next ballot with a valid proof inside the window is accepted, and in every
\* state an identity without a record is admitted inside the window.
C21_RejectedProof ==
    /\ [](deployed =>
            \A s \in Identities :
                (InWindow(now) /\ ~hasVoted[s]) => SubmitVoteRevert(now, s, TRUE) = "none")
    /\ [][/\ (IsVote(last') /\ ~last'.authOk)
                => /\ ~Ok(last'.err)
                   /\ (InWindow(now) /\ ~hasVoted[last'.sender]) => last'.err = "InvalidProof"
                   /\ hasVoted'[last'.sender] = hasVoted[last'.sender]
                   /\ UNCHANGED pollState
          /\ (/\ IsVote(last) /\ last.err = "InvalidProof"
              /\ IsVote(last') /\ last'.sender = last.sender
              /\ last'.authOk /\ InWindow(now))
                => /\ Ok(last'.err)
                   /\ hasVoted'[last'.sender]
                   /\ voterCount' = voterCount + 1]_vars

\* C21 witness: inside the window a ballot with a rejected proof has just
\* failed; its sender has no record while another identity's ballot is counted.
C21_Witness ==
    /\ IsVote(last) /\ last.err = "InvalidProof" /\ ~last.authOk
    /\ InWindow(now) /\ ~hasVoted[last.sender]
    /\ voterCount = 1

\* C22: a callback whose signatures fail verification never succeeds and
\* changes nothing, whatever its payload; with the recorded id on a pending
\* request it fails with InvalidSignature and the request stays pending; the
\* poll becomes finalized only in a callback with valid signatures.
C22_UnauthenticatedCallback ==
    [][/\ (IsCallback(last') /\ ~last'.authOk)
             => /\ ~Ok(last'.err)
                /\ finalized' = finalized
                /\ clearTallies' = clearTallies
                /\ decryptionPending' = decryptionPending
                /\ UNCHANGED pollState
       /\ (/\ IsCallback(last') /\ ~last'.authOk
           /\ decryptionPending /\ last'.requestId = decryptionRequestId)
             => (last'.err = "InvalidSignature" /\ decryptionPending' /\ ~finalized')
       /\ (~finalized /\ finalized') => (IsCallback(last') /\ last'.authOk)]_vars

\* C22 witness: a callback carrying the recorded id and the true plaintexts,
\* but signatures that do not verify, was rejected; the request is pending.
C22_Witness ==
    /\ IsCallback(last) /\ last.err = "InvalidSignature" /\ ~last.authOk
    /\ last.requestId = decryptionRequestId
    /\ last.cleartexts = TruePlaintexts
    /\ decryptionPending /\ ~finalized

\* C23: while a request is pending, only an accepted callback changes the
\* pending flag, the recorded id or the finalized flag; every other step,
\* ballots, requests, rejected callbacks and the passing of time included,
\* leaves the poll pending.
C23_PendingUntilCallback ==
    [][(decryptionPending /\ ~(IsCallback(last') /\ Ok(last'.err)))
           => /\ UNCHANGED <<decryptionPending, decryptionRequestId, finalized>>
              /\ decryptionPending' /\ ~finalized']_vars

\* C23 witness: a ballot was attempted on a poll whose request is pending, and
\* the request is pending still.
C23_Witness ==
    /\ decryptionPending /\ ~finalized
    /\ IsVote(last) /\ last.err = "VotingClosed"
    /\ Len(oracleRequests) = 1

\* C24: if time keeps advancing, callers keep requesting the decryption and
\* the oracle keeps answering a pending request with the recorded id, valid
\* signatures and N values, every constructed poll is eventually finalized
\* with every clear tally readable.
C24_EventuallyFinalized ==
    deployed ~> (/\ finalized
                 /\ \A i \in 0..(NumOptions - 1) : GetClearTally(i).err = "none")

\* C24 witness: a poll that took a ballot was finalized by the oracle's answer
\* to its request, and its clear tallies read back.
C24_Witness ==
    /\ finalized /\ IsCallback(last) /\ Ok(last.err)
    /\ voterCount > 0 /\ Len(oracleRequests) = 1
    /\ \A i \in 0..(NumOptions - 1) : GetClearTally(i).err = "none"

Grants(h) == h.acl

\* C25: an accepted ballot of identity v leaves N handles, each permitted for
\* the contract, for v and for the creator; and in every state of a
\* constructed poll the creator is permitted on each current handle, whoever
\* cast the ballots.
C25_PermissionPropagation ==
    /\ [](deployed =>
            /\ Len(encryptedTallies) = NumOptions
            /\ \A k \in 1..Len(encryptedTallies) : creator \in Grants(encryptedTallies[k]))
    /\ [][(IsVote(last') /\ Ok(last'.err))
             => /\ Len(encryptedTallies') = NumOptions
                /\ \A k \in 1..NumOptions :
                      {This, last'.sender, creator} \subseteq Grants(encryptedTallies'[k])]_vars

\* C25 witness: an identity other than the creator has just voted in a poll
\* with three options; the contract, the voter and the creator are permitted
\* on each of the three handles.
C25_Witness ==
    /\ IsVote(last) /\ Ok(last.err) /\ last.sender # creator
    /\ NumOptions = 3
    /\ \A k \in 1..3 : Grants(encryptedTallies[k]) = {This, last.sender, creator}

\* C26: isVotingOpen is true exactly when startTime <= now <= endTime and the
\* poll is not finalized, and in every state of a constructed poll that is
\* exactly when the window check of submitEncryptedVote lets a ballot through.
C26_IsVotingOpen ==
    deployed =>
        /\ IsVotingOpen(now) <=> (InWindow(now) /\ ~finalized)
        /\ \A s \in Identities, p \in BOOLEAN :
              IsVotingOpen(now) <=> (SubmitVoteRevert(now, s, p) # "VotingClosed")

\* C26 witness: at the closing instant itself the poll reports open, a ballot
\* having just been accepted.
C26_Witness ==
    /\ deployed /\ now = endTime /\ IsVotingOpen(now)
    /\ IsVote(last) /\ Ok(last.err)

\* What an observer without the decryption key sees of the tallies: how many
\* handles there are and who is permitted on each.
PublicView(tallies) == [k \in 1..Len(tallies) |-> Grants(tallies[k])]

\* C27: for an identity that can still vote, whatever choice its ballot
\* carries the fan-out leaves N handles, each permitted for exactly the
\* contract, the voter and the creator; an accepted ballot does so, sets the
\* voter's record, raises voterCount by one and emits VoteSubmitted(voter), and
\* had it carried any other choice the permissions, the record, the counter
\* and the log would be the same.
C27_DataIndependentFanOut ==
    /\ []((deployed /\ InWindow(now)) =>
            \A s \in {i \in Identities : ~hasVoted[i]}, c \in Choices :
                PublicView(FanOut(encryptedTallies, FHE_fromExternal(c), 0, s))
                    = [k \in 1..NumOptions |-> {This, s, creator}])
    /\ [][(IsVote(last') /\ Ok(last'.err))
             => /\ \A c \in Choices :
                      PublicView(encryptedTallies')
                          = PublicView(FanOut(encryptedTallies, FHE_fromExternal(c), 0, last'.sender))
                /\ PublicView(encryptedTallies')
                      = [k \in 1..NumOptions |-> {This, last'.sender, creator}]
                /\ hasVoted' = [hasVoted EXCEPT ![last'.sender] = TRUE]
                /\ voterCount' = voterCount + 1
                /\ events' = Append(events, [name |-> "VoteSubmitted", arg |-> last'.sender])
                /\ UNCHANGED <<deployed, immutables, lifecycle, oracleRequests>>]_vars

\* C27 witness: a ballot for the last option has just been accepted from an
\* identity other than the creator, and the handle of the first option, which
\* it did not choose, carries the voter's permission all the same.
C27_Witness ==
    /\ IsVote(last) /\ Ok(last.err) /\ last.sender # creator
    /\ encryptedTallies[NumOptions].val = 1
    /\ encryptedTallies[1].val = 0
    /\ last.sender \in Grants(encryptedTallies[1])

EventNames == {"VoteSubmitted", "TallyDecryptionRequested", "TallyFinalized"}
EventPositions(name) == {k \in 1..Len(events) : events[k].name = name}
IsPrefix(s, t) == Len(s) <= Len(t) /\ SubSeq(t, 1, Len(s)) = s

\* C28: the log only grows, by at most one entry a step and by none in a
\* failing call; it holds one VoteSubmitted(i) for each identity i that has
\* voted and none for the others, at most one TallyDecryptionRequested and at
\* most one TallyFinalized, every VoteSubmitted before the request and the
\* request before the finalization.
C28_NotificationLog ==
    /\ [](/\ \A k \in 1..Len(events) : events[k].name \in EventNames
          /\ \A i \in Identities : VoteSubmittedCount(i) = (IF hasVoted[i] THEN 1 ELSE 0)
          /\ CountEvents("TallyDecryptionRequested") <= 1
          /\ CountEvents("TallyFinalized") <= 1
          /\ \A v \in EventPositions("VoteSubmitted"), r \in EventPositions("TallyDecryptionRequested") :
                v < r
          /\ \A f \in EventPositions("TallyFinalized") :
                \E r \in EventPositions("TallyDecryptionRequested") : r < f)
    /\ [][/\ IsPrefix(events, events')
          /\ Len(events') <= Len(events) + 1
          /\ ~Ok(last'.err) => events' = events]_vars

\* C28 witness: the log reads VoteSubmitted(2), VoteSubmitted(1), the request,
\* the finalization, and a failing ballot has just left it so.
C28_Witness ==
    /\ Len(events) = 4
    /\ events[1] = [name |-> "VoteSubmitted", arg |-> 2]
    /\ events[2] = [name |-> "VoteSubmitted", arg |-> 1]
    /\ events[3].name = "TallyDecryptionRequested"
    /\ events[4].name = "TallyFinalized"
    /\ IsVote(last) /\ ~Ok(last.err)

\* C29: in every state of a constructed poll, whatever its phase, optionCount
\* is the number N of options it was constructed with; getOption(index) and
\* getEncryptedTally(index) fail with InvalidOptionIndex(index) for index >= N
\* and return the label and description given at construction, and the
\* current handle of the option, for index < N.
C29_OptionAccess ==
    deployed =>
        /\ OptionCount = NumOptions
        /\ OptionCount = Len(encryptedTallies)
        /\ \A index \in Indices :
              IF index >= OptionCount
              THEN /\ GetOption(index) = Reverted("InvalidOptionIndex", index)
                   /\ GetEncryptedTally(index) = Reverted("InvalidOptionIndex", index)
              ELSE /\ GetOption(index).err = "none"
                   /\ GetOption(index).value =
                         [label |-> OptionLabels(OptionCount)[index + 1],
                          description |-> OptionDescriptions(OptionCount)[index + 1]]
                   /\ GetEncryptedTally(index).err = "none"
                   /\ GetEncryptedTally(index).value = encryptedTallies[index + 1]

\* C29 witness: on a finalized poll the last option still reads back, its
\* handle holds a ballot, and index N is refused.
C29_Witness ==
    /\ finalized
    /\ GetOption(OptionCount - 1).err = "none"
    /\ GetEncryptedTally(OptionCount - 1).err = "none"
    /\ FHE_toBytes32(GetEncryptedTally(OptionCount - 1).value) = 1
    /\ GetOption(OptionCount).err = "InvalidOptionIndex"

Plain(tallies) == [k \in 1..Len(tallies) |-> tallies[k].val]

\* The loop of submitEncryptedVote run from the last counter to the first.
RECURSIVE FanOutDown(_, _, _, _)
FanOutDown(tallies, choice, i, sender) ==
    IF i > 0
    THEN FanOutDown([tallies EXCEPT ![i] = TallyIncrement(tallies[i], choice, i - 1, sender)],
                    choice, i - 1, sender)
    ELSE tallies

\* The tallies with one more ballot for plaintext choice c counted.
Counted(plain, c) == [k \in 1..Len(plain) |-> plain[k] + (IF c = k - 1 THEN 1 ELSE 0)]

\* C30: wherever two identities can still vote, their two ballots leave the
\* same plaintext tallies in either order of submission, and a ballot leaves
\* the same plaintext tallies whether its loop runs upwards or downwards: it
\* adds one to the counter of its choice and nothing else, as every accepted
\* ballot of the poll does.
C30_OrderingIndependence ==
    /\ []((deployed /\ InWindow(now)) =>
            \A s1 \in {i \in Identities : ~hasVoted[i]} :
                /\ \A c \in Choices :
                      LET once == Plain(FanOut(encryptedTallies, FHE_fromExternal(c), 0, s1))
                      IN  /\ once = Counted(Plain(encryptedTallies), c)
                          /\ once = Plain(FanOutDown(encryptedTallies, FHE_fromExternal(c),
                                                     Len(encryptedTallies), s1))
                /\ \A s2 \in {i \in Identities : ~hasVoted[i] /\ i > s1},
                      c1 \in Choices, c2 \in Choices :
                      Plain(FanOut(FanOut(encryptedTallies, FHE_fromExternal(c1), 0, s1),
                                   FHE_fromExternal(c2), 0, s2))
                          = Plain(FanOut(FanOut(encryptedTallies, FHE_fromExternal(c2), 0, s2),
                                         FHE_fromExternal(c1), 0, s1)))
    /\ [][(IsVote(last') /\ Ok(last'.err))
             => \E c \in Choices : Plain(encryptedTallies') = Counted(Plain(encryptedTallies), c)]_vars

\* C30 witness: the second of two ballots for different options has just been
\* accepted: the last option and the first hold one ballot each.
C30_Witness ==
    /\ IsVote(last) /\ Ok(last.err) /\ voterCount = 2
    /\ Plain(encryptedTallies)[1] = 1
    /\ Plain(encryptedTallies)[NumOptions] = 1
    /\ SumSeq(Plain(encryptedTallies)) = 2

\* -------------------------------------------------------- FHECounter
OwnerFunctions == {"reset", "pause", "unpause", "transferOwnership"}
CountFunctions == {"increment", "decrement", "batchIncrement", "batchDecrement", "reset"}

\* Identity i passes the owner check of each of the four owner functions.
HasOwnerRights(i) ==
    /\ ResetRevert(i) # NotOwner
    /\ PauseRevert(i) # NotOwner
    /\ UnpauseRevert(i) # NotOwner
    /\ \A n \in NewOwners : TransferOwnershipRevert(i, n) # NotOwner

OwnerCallsGuarded ==
    /\ (last'.op \in OwnerFunctions /\ Ok(last'.err)) => last'.sender = owner
    /\ (last'.op \in OwnerFunctions /\ last'.sender # owner)
          => /\ last'.err = NotOwner
             /\ UNCHANGED <<count, owner, paused>>
    /\ (counterDeployed /\ owner' # owner)
          => (last'.op = "transferOwnership" /\ Ok(last'.err))

\* C31 as stated: the four owner functions succeed only for the owner and a
\* call by anyone else changes nothing; after every successful
\* transferOwnership(newOwner) newOwner has the owner's rights and the
\* previous owner has them no more.
C31_OwnerOnlyPreviousLoses ==
    [][/\ OwnerCallsGuarded
       /\ (last'.op = "transferOwnership" /\ Ok(last'.err))
             => \A i \in Identities, o \in Identities :
                    /\ (i = last'.newOwner) => HasOwnerRights(i)'
                    /\ (o = owner) => ~HasOwnerRights(o)']_vars

\* C31 amended: the four owner functions succeed only for the owner and a
\* call by anyone else fails and leaves count, owner and paused as they were;
\* after a successful transferOwnership(newOwner) newOwner is the owner and
\* the only identity with the owner's rights, so the previous owner has lost
\* them unless newOwner is the previous owner itself.
C31_OwnerOnly ==
    [][/\ OwnerCallsGuarded
       /\ (last'.op = "transferOwnership" /\ Ok(last'.err))
             => /\ owner' = last'.newOwner
                /\ \A i \in Identities : HasOwnerRights(i)' <=> (i = last'.newOwner)
                /\ \A o \in Identities :
                      (o = owner /\ o # last'.newOwner) => ~HasOwnerRights(o)']_vars

\* C31 witness: the deployer, having transferred the ownership away, has just
\* been refused a reset; the counter holds what it held.
C31_Witness ==
    /\ last.op = "reset" /\ last.err = NotOwner
    /\ last.sender \in Deployers /\ owner \notin Deployers
    /\ ~paused /\ count.val # 0
    /\ HasOwnerRights(owner) /\ ~HasOwnerRights(last.sender)

\* C32: while paused, increment, decrement, batchIncrement, batchDecrement and
\* reset fail for every caller and input and leave the count as it was; a
\* pause succeeds only when not paused and sets the switch, an unpause only
\* when paused and clears it, and nothing else moves the switch, so
\* successful pauses and unpauses alternate.
C32_Pausing ==
    /\ []((counterDeployed /\ paused) =>
            \A s \in Identities, p \in BOOLEAN, t \in BatchTimes :
                /\ IncrementRevert(p) = IsPaused
                /\ DecrementRevert(p) = IsPaused
                /\ BatchRevert(t, p) = IsPaused
                /\ ~Ok(ResetRevert(s))
                /\ ~Ok(PauseRevert(s)))
    /\ [][/\ (paused /\ last'.op \in CountFunctions)
                => (~Ok(last'.err) /\ count' = count /\ emitted' = <<>>)
          /\ (last'.op = "pause" /\ Ok(last'.err)) => (~paused /\ paused')
          /\ (last'.op = "unpause" /\ Ok(last'.err)) => (paused /\ ~paused')
          /\ (last'.op = "pause" /\ paused) => (~Ok(last'.err) /\ paused')
          /\ (last'.op = "unpause" /\ ~paused) => (~Ok(last'.err) /\ ~paused')
          /\ paused' # paused
                => (last'.op \in {"pause", "unpause"} /\ Ok(last'.err))]_vars

\* C32 witness: on a paused counter that holds a value, a batch increment
\* with a valid proof and a valid number of times has just been refused.
C32_Witness ==
    /\ paused /\ count.val # 0
    /\ last.op = "batchIncrement" /\ last.err = IsPaused
    /\ last.authOk /\ last.times = 1

\* -------------------------------------------- EncryptedPredictionPoll
\* C33: time never runs backwards; whenever a request is pending or the poll
\* is finalized the window has closed, so every ballot fails with
\* VotingClosed; once a request has succeeded the encrypted tallies, the
\* ballot records and voterCount never change, and what the oracle was sent
\* are the handles of the final tallies.
C33_FrozenAfterRequest ==
    /\ []((decryptionPending \/ finalized) =>
            /\ now > endTime
            /\ Len(oracleRequests) = 1
            /\ oracleRequests[1].ciphertexts = Ciphertexts(encryptedTallies)
            /\ \A s \in Identities, p \in BOOLEAN : SubmitVoteRevert(now, s, p) = "VotingClosed")
    /\ [][/\ now' >= now
          /\ oracleRequests # <<>>
                => /\ UNCHANGED ballots
                   /\ IsVote(last') => last'.err = "VotingClosed"]_vars

\* C33 witness: while the request is pending an identity that never voted
\* tried a ballot with a valid proof and was refused; the oracle holds the
\* tallies of the one ballot cast in time.
C33_Witness ==
    /\ decryptionPending
    /\ IsVote(last) /\ last.err = "VotingClosed" /\ last.authOk /\ ~hasVoted[last.sender]
    /\ voterCount = 1
    /\ oracleRequests[1].ciphertexts = TruePlaintexts

\* C34: finalized and decryptionPending are never both true; a request is
\* pending exactly when one was granted and no callback has been accepted
\* since, and the poll is finalized exactly when one has.
C34_Lifecycle ==
    /\ ~(finalized /\ decryptionPending)
    /\ decryptionPending <=>
          (CountEvents("TallyDecryptionRequested") = 1 /\ CountEvents("TallyFinalized") = 0)
    /\ finalized <=>
          (CountEvents("TallyDecryptionRequested") = 1 /\ CountEvents("TallyFinalized") = 1)
    /\ <<decryptionPending, finalized>> \in {<<FALSE, FALSE>>, <<TRUE, FALSE>>, <<FALSE, TRUE>>}

\* C34 witness: the request of a poll that took ballots has just been granted:
\* pending, not finalized.
C34_Witness ==
    /\ decryptionPending /\ ~finalized
    /\ IsRequest(last) /\ Ok(last.err) /\ voterCount > 0
    /\ CountEvents("TallyFinalized") = 0

VotePassesWindow(t) ==
    \A s \in Identities, p \in BOOLEAN : SubmitVoteRevert(t, s, p) # "VotingClosed"
RequestPassesWindow(t) == RequestDecryptionRevert(t) # "VotingStillOpen"

\* C35: at every timestamp from startTime on, a ballot passes its window
\* check or a request passes its window check, never both; at endTime itself
\* a fresh ballot with a valid proof is accepted and a request fails with
\* VotingStillOpen.
C35_ComplementaryGates ==
    /\ [](deployed =>
            /\ \A t \in startTime..(endTime + MaxDuration + 1) :
                  VotePassesWindow(t) <=> ~RequestPassesWindow(t)
            /\ VotePassesWindow(endTime) /\ ~RequestPassesWindow(endTime))
    /\ [][now = endTime =>
            /\ (IsVote(last') /\ ~hasVoted[last'.sender] /\ last'.authOk)
                  => (Ok(last'.err) /\ hasVoted'[last'.sender])
            /\ IsRequest(last') => (last'.err = "VotingStillOpen" /\ UNCHANGED pollState)]_vars

\* C35 witness: at the closing instant a request has just failed with
\* VotingStillOpen, and an identity can still vote.
C35_Witness ==
    /\ deployed /\ now = endTime
    /\ IsRequest(last) /\ last.err = "VotingStillOpen"
    /\ \E s \in Identities : SubmitVoteRevert(now, s, TRUE) = "none"

PlainSum == SumSeq(Plain(encryptedTallies))

\* C36: the plaintexts of the encrypted tallies sum to at most voterCount;
\* an accepted ballot whose choice is below N raises both by one, and one
\* whose choice is N or more raises voterCount alone, so the difference is the
\* number of accepted ballots with a choice of N or more.
C36_SumAtMostVoterCount ==
    /\ [](PlainSum <= voterCount)
    /\ [][/\ (IsVote(last') /\ Ok(last'.err))
                => \E c \in Choices :
                      /\ Plain(encryptedTallies') = Counted(Plain(encryptedTallies), c)
                      /\ voterCount' = voterCount + 1
                      /\ PlainSum' = PlainSum + (IF c < NumOptions THEN 1 ELSE 0)
          /\ ~(IsVote(last') /\ Ok(last'.err))
                => (voterCount' - PlainSum' = voterCount - PlainSum)]_vars

\* C36 witness: two ballots were accepted and the tallies hold one of them.
C36_Witness ==
    /\ IsVote(last) /\ Ok(last.err)
    /\ voterCount = 2 /\ PlainSum = 1

\* C37 as stated: in every state of a constructed poll the contract and the
\* creator are both permitted on each of the N encrypted tallies, and each
\* handle the oracle was sent is one the contract was permitted on.
C37_ContractHoldsPermission ==
    deployed =>
        /\ Len(encryptedTallies) = NumOptions
        /\ \A k \in 1..Len(encryptedTallies) :
              {This, creator} \subseteq Grants(encryptedTallies[k])

\* C38: a callback rejected while a request is pending leaves the request
\* pending with the same id, and the next callback with that id, valid
\* signatures and N values is accepted and finalizes the poll; while a request
\* is pending such a callback is always admitted.
C38_RejectedCallbacksKeepRequest ==
    /\ [](decryptionPending =>
            \A p \in Payloads :
                Len(p) = NumOptions => DecryptionCallbackRevert(decryptionRequestId, p, TRUE) = "none")
    /\ [][/\ (decryptionPending /\ IsCallback(last') /\ ~Ok(last'.err))
                => /\ decryptionPending' /\ ~finalized'
                   /\ decryptionRequestId' = decryptionRequestId
                   /\ UNCHANGED pollState
          /\ (/\ decryptionPending /\ IsCallback(last) /\ ~Ok(last.err)
              /\ IsCallback(last') /\ last'.requestId = decryptionRequestId
              /\ last'.authOk /\ Len(last'.cleartexts) = NumOptions)
                => (Ok(last'.err) /\ finalized' /\ ~decryptionPending')]_vars

\* C38 witness: a callback with a foreign id, valid signatures and the true
\* plaintexts has just been rejected; the request is pending under the id the
\* oracle was given.
C38_Witness ==
    /\ decryptionPending /\ ~finalized
    /\ IsCallback(last) /\ last.err = "UnexpectedCallback"
    /\ last.requestId # decryptionRequestId /\ last.authOk
    /\ last.cleartexts = TruePlaintexts
    /\ oracleRequests[1].requestId = decryptionRequestId

====
